---- MODULE Spec2Model ----
(***************************************************************************)
(* async-tasks: the periodic behavior-processing scheduler of updater.go   *)
(* (claim / verify / release over marker tasks in the task store), the     *)
(* status-change-timeout processor and the task-creating API request.      *)
(*                                                                         *)
(* Time is an integer number of minutes.  A timestamp the store assigns    *)
(* (start_date, end_date, created_date) is the clock at the statement      *)
(* that writes the row; a row is visible to other transactions from its    *)
(* Commit on, and a successful Commit takes one unit of time, so every     *)
(* committed row is strictly older than any later reading of the clock.    *)
(* The insert of a marker takes no time or one unit, so two replicas can   *)
(* get equal or different start_dates whatever the order of their commits. *)
(* Besides that, time passes in jumps to the next instant at which its     *)
(* passing changes what the program does (a deadline, the edge of the      *)
(* verify window, the expiry of a rule's timeout).                         *)
(***************************************************************************)
EXTENDS Integers, Sequences, FiniteSets, TLC

\* ------------------------------------------------------------------ bounds
NumReplicas == 2
MaxTicks == 1
MaxTime == 15
MaxFailures == 1
MaxCrashes == 1
MaxTasks == 1
MaxRules == 2
MaxRequests == 2
MaxScans == 2
MaxScanTasks == 2

\* ------------------------------------------------------- program constants
\* checkOldest: time.Now().Add(time.Minute * -12)
SafetyMargin == 12
\* main: context.WithTimeout(context.Background(), 10*time.Minute)
TickTimeout == 10
\* checkOldest: time.Now().AddDate(1, 0, 0), in minutes
OneYear == 525600
\* a nil *time.Time (AsyncTask.EndDate of a task that is not completed)
Null == 0 - 1
\* the empty task id checkAlone returns with an insert error
NoID == <<>>

Replicas == 1..NumReplicas
\* the type main registers, and a second one AddBehavior may register
AllTypes == {"statuschangetimeout", "other"}

VARIABLES
    clock,              \* current time of the store and of every replica
    markers,            \* committed tasks of type behaviorprocessor-<type>
    failures,           \* store operations that have failed so far
    crashes,            \* replicas that have crashed so far
    fired,              \* firings of the 30-second ticker so far
    tickerC,            \* ticker.C of each replica: 0 (empty) or a buffered tick
    behaviorProcessors, \* keys of AsyncTasksUpdater.behaviorProcessors
    loop,               \* position of each replica's timer goroutine
    tickerTime,         \* the tick each replica is processing
    deadline,           \* deadline of the tick's context
    gpc,                \* position of each (replica, type) goroutine
    taskID,             \* id of the marker the goroutine claimed
    startDate,          \* start_date of that marker
    outcome,            \* how the goroutine's attempt went
    seen,               \* ids of the rows its verify query returned
    invoked,            \* ids of the markers whose owner called the processor
                        \* (an id is <<replica, type, tick>>)
    conf,               \* the replicas that run, the ticks the ticker fires,
                        \* the kinds and the number of the requests the
                        \* API's callers send
    asyncTasks,         \* the committed tasks of the API's callers
    nextID,             \* the id the store assigns to the next such task
    response,           \* the last API request and the answer to it
    scan,               \* the run of statuschangetimeout.Processor
    passes              \* the last two calls of processSingleTask

\* the state of the scheduler and the state of the callers' tasks
loopVars == <<markers, crashes, fired, tickerC, behaviorProcessors, loop,
              tickerTime, deadline, gpc, taskID, startDate, outcome, seen,
              invoked, conf>>
schedVars == <<failures, loopVars>>
taskVars == <<asyncTasks, nextID, response, scan, passes>>
vars == <<clock, schedVars, taskVars>>

\* ------------------------------------------------------------ task store
Marker(id, b, start, end) == [id |-> id, btype |-> b, start |-> start, end |-> end]

\* TaskFilter of types, StartDateSince, EndDateSince and IncludeNullEnd:
\* predicates of different dimensions are AND'd.
GetTasksByFilter(f) ==
    { m \in markers :
        /\ m.btype \in f.types
        /\ m.start >= f.startDateSince
        /\ \/ (m.end # Null /\ m.end >= f.endDateSince)
           \/ (f.includeNullEnd /\ m.end = Null) }

\* The orders "start_date ASC" allows: rows of equal start_date come in any order.
OrderedBy(rows) ==
    { s \in [1..Cardinality(rows) -> rows] :
        /\ \A i, j \in 1..Cardinality(rows) : i # j => s[i] # s[j]
        /\ \A i, j \in 1..Cardinality(rows) : i < j => s[i].start <= s[j].start }

\* ------------------------------------------------------- callers' tasks
\* a task row with its statuses (in insertion order) and its behaviors
Task(id, type, start, end, statuses, behaviors) ==
    [id |-> id, type |-> type, start |-> start, end |-> end,
     statuses |-> statuses, behaviors |-> behaviors]

\* GetTask of an id that is not in the store: a task with the empty id
NoTask == Task(0, "", Null, Null, <<>>, <<>>)

NoResponse == [n |-> 0, op |-> "", req |-> Task(0, "", Null, Null, <<>>, <<>>),
               code |-> 0, ops |-> <<>>, id |-> 0]
NoScan == [n |-> 0, pc |-> "idle", ids |-> <<>>, canceled |-> FALSE, err |-> FALSE]

SeqsUpTo(S, n) == UNION { [1..k -> S] : k \in 0..n }

\* StatusChangeTimeoutData as the callers write it; decodes is whether
\* mapstructure.Decode accepts the datum
Timeouts == {"0s", "2m", "bad"}
RuleData ==
    [start_status : {"", "a"}, end_status : {"a", "b"}, timeout : Timeouts,
     complete : BOOLEAN, delete : BOOLEAN, decodes : {TRUE}]
      \cup {[start_status |-> "", end_status |-> "", timeout |-> "0s",
             complete |-> FALSE, delete |-> FALSE, decodes |-> FALSE]}

Behavior(btype, rules) == [btype |-> btype, rules |-> rules]

\* rules that are due as soon as the task exists, with every combination of
\* complete and delete
ScanRuleData ==
    [start_status : {""}, end_status : {"a"}, timeout : {"0s"},
     complete : BOOLEAN, delete : BOOLEAN, decodes : {TRUE}]

\* a rule that mapstructure.Decode refuses, a rule whose timeout is not a
\* duration, and a rule that is well-formed and due as soon as the task exists
SkipRuleData ==
    {[start_status |-> "", end_status |-> "", timeout |-> "0s",
      complete |-> FALSE, delete |-> FALSE, decodes |-> FALSE],
     [start_status |-> "", end_status |-> "a", timeout |-> "bad",
      complete |-> FALSE, delete |-> FALSE, decodes |-> TRUE],
     [start_status |-> "", end_status |-> "a", timeout |-> "0s",
      complete |-> TRUE, delete |-> FALSE, decodes |-> TRUE]}

\* the bodies of the create requests: "fields" varies the fields that
\* CreateTaskRequest examines, "rules" the rules of the behavior, "scan" the
\* effects of rules that are due, "skip" rules that are not well-formed
Payloads(kind) ==
    IF kind = "fields"
    THEN { Task(0, type, Null, Null, statuses, behaviors) :
             type \in {"", "t"},
             statuses \in SeqsUpTo({"", "a"}, 2),
             behaviors \in SeqsUpTo({Behavior("", <<>>),
                                     Behavior("statuschangetimeout", <<>>)}, 2) }
    ELSE IF kind = "rules"
    THEN { Task(0, "t", Null, Null, statuses,
                <<Behavior("statuschangetimeout", rules)>>) :
             statuses \in SeqsUpTo({"a"}, 1),
             rules \in SeqsUpTo(RuleData, MaxRules) }
    ELSE IF kind = "scan"
    THEN { Task(0, "t", Null, Null, <<>>,
                <<Behavior("statuschangetimeout", rules)>>) :
             rules \in SeqsUpTo(ScanRuleData, MaxRules) }
    ELSE { Task(0, "t", Null, Null, <<>>,
                <<Behavior("statuschangetimeout", rules)>>) :
             rules \in SeqsUpTo(SkipRuleData, MaxRules) }

\* time.ParseDuration of the timeouts above, in minutes
ParseDuration(str) ==
    CASE str = "0s" -> [ok |-> TRUE, d |-> 0]
      [] str = "2m" -> [ok |-> TRUE, d |-> 2]
      [] OTHER -> [ok |-> FALSE, d |-> 0]

\* the instants at which a rule's timeout expires, counted from the
\* start_date or from the created_date of a status
TimeoutInstants ==
    UNION { { c + ParseDuration(rule.timeout).d + 1 :
                c \in {t.start} \cup { t.statuses[i].created : i \in DOMAIN t.statuses },
                rule \in UNION { { b.rules[j] : j \in DOMAIN b.rules } :
                                   b \in { t.behaviors[k] : k \in DOMAIN t.behaviors } } } :
            t \in asyncTasks }

\* ------------------------------------------------------------ updater.go
\* a filter whose start_date window reaches a year back instead of 12 minutes
OldestFilterNoMargin(b, now) ==
    [types |-> {b}, startDateSince |-> now - OneYear,
     endDateSince |-> now + OneYear, includeNullEnd |-> TRUE]

\* a filter whose start_date window is the timeout of the tick less the
\* padding instead of the timeout plus the padding
OldestFilterNoPadding(b, now) ==
    [types |-> {b}, startDateSince |-> now - (TickTimeout - (SafetyMargin - TickTimeout)),
     endDateSince |-> now + OneYear, includeNullEnd |-> TRUE]

\* the filter checkOldest builds
OldestFilter(b, now) ==
    [types |-> {b}, startDateSince |-> now - SafetyMargin,
     endDateSince |-> now + OneYear, includeNullEnd |-> TRUE]

\* the loop of checkOldest over the rows, from row i on
RECURSIVE OldestLoop(_, _, _, _, _)
OldestLoop(tasks, i, oldestTime, isOldest, id) ==
    IF i > Len(tasks) THEN isOldest
    ELSE IF tasks[i].start < oldestTime
         THEN IF tasks[i].id = id
              THEN OldestLoop(tasks, i + 1, tasks[i].start, TRUE, id)
              ELSE FALSE
         ELSE OldestLoop(tasks, i + 1, oldestTime, isOldest, id)

\* a verify step that never finds another marker to be the oldest
IsOldestAlways(tasks, id, now) == TRUE

\* checkOldest returns nil: the first row that started before now is the
\* one with the id
IsOldest(tasks, id, now) == OldestLoop(tasks, 1, now, TRUE, id)

\* the id the store assigns to the marker of an attempt: unique per attempt
NewID(r, b) == <<r, b, tickerTime[r]>>

\* ctx.Done() of the tick's context
Canceled(r) == clock >= deadline[r]

\* the instants at which the passing of time alone changes what the program
\* can do: a context reaches its deadline, a marker leaves the window, a
\* timeout expires
Instants ==
    { deadline[r] : r \in { x \in Replicas : loop[x] = "update" } }
      \cup { m.start + SafetyMargin + 1 : m \in { x \in markers : x.end = Null } }
      \cup TimeoutInstants

\* A processor returns by the deadline of the context it runs under, so time
\* does not pass the deadline of a replica that is inside a processor.
TimeCanPass(t) ==
    /\ t <= MaxTime
    /\ \A r \in Replicas, b \in AllTypes : gpc[r][b] = "run" => t <= deadline[r]

\* a store operation called with the tick's context fails: always when the
\* context is canceled, else when the store fails
OpFails(r) ==
    IF Canceled(r) THEN UNCHANGED failures
    ELSE failures < MaxFailures /\ failures' = failures + 1

IdleGoroutines == [b \in AllTypes |-> "none"]
NoIDs == [b \in AllTypes |-> NoID]
NoDates == [b \in AllTypes |-> 0]
NoRows == [b \in AllTypes |-> {}]

\* the goroutine of r for type b called the processor
Won(r, b) == outcome[r][b] \in {"won", "procOk", "procErr"}

InitState(replicas, ticks, processors, payloads, requests) ==
    /\ clock = 0
    /\ markers = {}
    /\ failures = 0
    /\ crashes = 0
    /\ fired = 0
    /\ tickerC = [r \in Replicas |-> 0]
    /\ behaviorProcessors = processors
    /\ loop = [r \in Replicas |-> "wait"]
    /\ tickerTime = [r \in Replicas |-> 0]
    /\ deadline = [r \in Replicas |-> 0]
    /\ gpc = [r \in Replicas |-> IdleGoroutines]
    /\ taskID = [r \in Replicas |-> NoIDs]
    /\ startDate = [r \in Replicas |-> NoDates]
    /\ outcome = [r \in Replicas |-> IdleGoroutines]
    /\ seen = [r \in Replicas |-> NoRows]
    /\ invoked = {}
    /\ conf = [replicas |-> replicas, ticks |-> ticks, payloads |-> payloads,
               requests |-> requests]
    /\ asyncTasks = {}
    /\ nextID = 1
    /\ response = NoResponse
    /\ scan = NoScan
    /\ passes = <<>>

\* main: NewAsyncTasksUpdater and AddBehavior("statuschangetimeout", ...),
\* in every replica
Init == InitState(Replicas, MaxTicks, {"statuschangetimeout"}, {}, 0)

\* one replica whose updater has any set of types registered by AddBehavior
\* before the timer starts, over one tick more
InitRegistry ==
    \E processors \in SUBSET AllTypes : InitState({1}, MaxTicks + 1, processors, {}, 0)

\* the ticker fires: a tick is buffered unless one is already waiting
TickerFire ==
    /\ fired < conf.ticks
    /\ fired' = fired + 1
    /\ tickerC' = [r \in Replicas |->
                     IF tickerC[r] = 0 /\ loop[r] # "crashed" /\ r \in conf.replicas
                     THEN fired + 1 ELSE tickerC[r]]
    /\ UNCHANGED <<clock, markers, failures, crashes, behaviorProcessors,
                   loop, tickerTime, deadline, gpc, taskID, startDate,
                   outcome, seen, invoked, conf>>
    /\ UNCHANGED taskVars

\* time passes, up to the next instant at which that makes a difference
Tick ==
    /\ \E t \in Instants :
         /\ t > clock
         /\ \A u \in Instants : u > clock => t <= u
         /\ TimeCanPass(t)
         /\ clock' = t
    /\ UNCHANGED <<markers, failures, crashes, fired, tickerC,
                   behaviorProcessors, loop, tickerTime, deadline, gpc,
                   taskID, startDate, outcome, seen, invoked, conf>>
    /\ UNCHANGED taskVars

\* a timer loop that receives the next tick while DoPeriodicUpdate is still
\* running, as if it called it in a goroutine
AtSelectOrUpdating(r) == loop[r] \in {"wait", "update"}

\* the timer loop is at its select: DoPeriodicUpdate is called in the loop
\* itself, so the loop is back there only when the call has returned
AtSelect(r) == loop[r] = "wait"

\* goroutines for every type there is, registered or not
StartedGoroutinesAll == [b \in AllTypes |-> "begin"]

\* the range over u.behaviorProcessors: one goroutine per registered type
StartedGoroutines ==
    [b \in AllTypes |-> IF b \in behaviorProcessors THEN "begin" ELSE "none"]

\* main: t := <-ticker.C, the context with its deadline, and DoPeriodicUpdate
\* up to the start of one goroutine per registered behavior type
StartUpdate(r) ==
    /\ AtSelect(r)
    /\ tickerC[r] # 0
    /\ tickerTime' = [tickerTime EXCEPT ![r] = tickerC[r]]
    /\ tickerC' = [tickerC EXCEPT ![r] = 0]
    /\ deadline' = [deadline EXCEPT ![r] = clock + TickTimeout]
    /\ loop' = [loop EXCEPT ![r] = "update"]
    /\ gpc' = [gpc EXCEPT ![r] = StartedGoroutines]
    /\ UNCHANGED <<clock, markers, failures, crashes, fired,
                   behaviorProcessors, taskID, startDate, outcome, seen,
                   invoked, conf>>
    /\ UNCHANGED taskVars

\* an error path that returns without deleting the marker
ErrorPathReturns(id) == "done"

\* DoPeriodicUpdate after checkAlone returned an error: deleteTask if it
\* also returned a taskID, else return
ErrorPath(id) == IF id # NoID THEN "lose" ELSE "done"

\* createBehaviorProcessorTask: BeginTx and InsertTask; the row gets its id
\* and its start_date, and is not yet visible to other transactions
InsertTask(r, b) ==
    /\ gpc[r][b] = "begin"
    /\ \/ /\ ~Canceled(r)
          /\ gpc' = [gpc EXCEPT ![r][b] = "inserted"]
          /\ taskID' = [taskID EXCEPT ![r][b] = NewID(r, b)]
          /\ startDate' = [startDate EXCEPT ![r][b] = clock]
          /\ \E t \in {clock, clock + 1} : (t = clock \/ TimeCanPass(t)) /\ clock' = t
          /\ UNCHANGED <<failures, outcome>>
       \/ /\ OpFails(r)
          /\ gpc' = [gpc EXCEPT ![r][b] = ErrorPath(NoID)]
          /\ outcome' = [outcome EXCEPT ![r][b] = "insertErr"]
          /\ UNCHANGED <<taskID, startDate, clock>>
    /\ UNCHANGED <<markers, crashes, fired, tickerC,
                   behaviorProcessors, loop, tickerTime, deadline, seen,
                   invoked, conf>>
    /\ UNCHANGED taskVars

\* createBehaviorProcessorTask: Commit; on an error the id is dropped
CommitTask(r, b) ==
    /\ gpc[r][b] = "inserted"
    /\ \/ /\ ~Canceled(r)
          /\ TimeCanPass(clock + 1)
          /\ markers' = markers \cup {Marker(taskID[r][b], b, startDate[r][b], Null)}
          /\ clock' = clock + 1
          /\ gpc' = [gpc EXCEPT ![r][b] = "verify"]
          /\ UNCHANGED <<failures, taskID, outcome>>
       \/ /\ OpFails(r)
          /\ gpc' = [gpc EXCEPT ![r][b] = ErrorPath(NoID)]
          /\ taskID' = [taskID EXCEPT ![r][b] = NoID]
          /\ outcome' = [outcome EXCEPT ![r][b] = "insertErr"]
          /\ UNCHANGED <<markers, clock>>
    /\ startDate' = [startDate EXCEPT ![r][b] = 0]
    /\ UNCHANGED <<crashes, fired, tickerC, behaviorProcessors, loop,
                   tickerTime, deadline, seen, invoked, conf>>
    /\ UNCHANGED taskVars

\* checkOldest, and on success the call of the processor
CheckOldest(r, b) ==
    /\ gpc[r][b] = "verify"
    /\ \/ /\ ~Canceled(r)
          /\ \E tasks \in OrderedBy(GetTasksByFilter(OldestFilter(b, clock))) :
               /\ seen' = [seen EXCEPT ![r][b] = { tasks[i].id : i \in DOMAIN tasks }]
               /\ IF IsOldest(tasks, taskID[r][b], clock)
                  THEN /\ gpc' = [gpc EXCEPT ![r][b] = "run"]
                       /\ outcome' = [outcome EXCEPT ![r][b] = "won"]
                       /\ invoked' = invoked \cup {taskID[r][b]}
                  ELSE /\ gpc' = [gpc EXCEPT ![r][b] = ErrorPath(taskID[r][b])]
                       /\ outcome' = [outcome EXCEPT ![r][b] = "lost"]
                       /\ UNCHANGED invoked
          /\ UNCHANGED failures
       \/ /\ OpFails(r)
          /\ gpc' = [gpc EXCEPT ![r][b] = ErrorPath(taskID[r][b])]
          /\ outcome' = [outcome EXCEPT ![r][b] = "verifyErr"]
          /\ UNCHANGED <<invoked, seen>>
    /\ UNCHANGED <<clock, markers, crashes, fired, tickerC,
                   behaviorProcessors, loop, tickerTime, deadline, taskID,
                   startDate, conf>>
    /\ UNCHANGED taskVars

\* deleteTask(ctx, ...) of the goroutine that did not win; an error is logged
DeleteTask(r, b) ==
    /\ gpc[r][b] = "lose"
    /\ \/ /\ ~Canceled(r)
          /\ TimeCanPass(clock + 1)
          /\ markers' = { m \in markers : m.id # taskID[r][b] }
          /\ clock' = clock + 1
          /\ UNCHANGED failures
       \/ /\ OpFails(r)
          /\ UNCHANGED <<markers, clock>>
    /\ gpc' = [gpc EXCEPT ![r][b] = "done"]
    /\ UNCHANGED <<crashes, fired, tickerC, behaviorProcessors, loop,
                   tickerTime, deadline, taskID, startDate, outcome, seen,
                   invoked, conf>>
    /\ UNCHANGED taskVars

\* the processor returns, with an error or without
ProcessorReturn(r, b) ==
    /\ gpc[r][b] = "run"
    /\ gpc' = [gpc EXCEPT ![r][b] = "finish"]
    /\ \E res \in {"procOk", "procErr"} : outcome' = [outcome EXCEPT ![r][b] = res]
    /\ UNCHANGED <<clock, markers, failures, crashes, fired, tickerC,
                   behaviorProcessors, loop, tickerTime, deadline, taskID,
                   startDate, seen, invoked, conf>>
    /\ UNCHANGED taskVars

\* a completion that is called with the context of the tick
FinishCtxOfTick(r) == Canceled(r)

\* the context finishTask is called with is context.Background(), which is
\* never canceled
FinishCtxDone(r) == FALSE

\* the store operations of finishTask fail: when its context is canceled,
\* else when the store fails
FinishFails(r) ==
    IF FinishCtxDone(r) THEN UNCHANGED failures
    ELSE failures < MaxFailures /\ failures' = failures + 1

\* the deferred finishTaskLogError(context.Background(), ...)
FinishTask(r, b) ==
    /\ gpc[r][b] = "finish"
    /\ \/ /\ ~FinishCtxDone(r)
          /\ TimeCanPass(clock + 1)
          /\ markers' = { IF m.id = taskID[r][b]
                          THEN Marker(m.id, m.btype, m.start, clock) ELSE m : m \in markers }
          /\ clock' = clock + 1
          /\ UNCHANGED failures
       \/ /\ FinishFails(r)
          /\ UNCHANGED <<markers, clock>>
    /\ gpc' = [gpc EXCEPT ![r][b] = "done"]
    /\ UNCHANGED <<crashes, fired, tickerC, behaviorProcessors, loop,
                   tickerTime, deadline, taskID, startDate, outcome, seen,
                   invoked, conf>>
    /\ UNCHANGED taskVars

\* a wait that ends as soon as one goroutine has called wg.Done()
WaitGroupDoneAny(r) == \E b \in AllTypes : gpc[r][b] \in {"none", "done"}

\* wg.Wait(): every goroutine that was started has called wg.Done()
WaitGroupDone(r) == \A b \in AllTypes : gpc[r][b] \in {"none", "done"}

\* wg.Wait() returns and DoPeriodicUpdate returns nil
FinishUpdate(r) ==
    /\ loop[r] = "update"
    /\ WaitGroupDone(r)
    /\ loop' = [loop EXCEPT ![r] = "returned"]
    /\ UNCHANGED <<clock, markers, failures, crashes, fired, tickerC,
                   behaviorProcessors, tickerTime, deadline, gpc, taskID,
                   startDate, outcome, seen, invoked, conf>>
    /\ UNCHANGED taskVars

\* main: cancel() and the next iteration of the timer loop
NextIteration(r) ==
    /\ loop[r] = "returned"
    /\ loop' = [loop EXCEPT ![r] = "wait"]
    /\ gpc' = [gpc EXCEPT ![r] = IdleGoroutines]
    /\ outcome' = [outcome EXCEPT ![r] = IdleGoroutines]
    /\ taskID' = [taskID EXCEPT ![r] = NoIDs]
    /\ seen' = [seen EXCEPT ![r] = NoRows]
    /\ tickerTime' = [tickerTime EXCEPT ![r] = 0]
    /\ deadline' = [deadline EXCEPT ![r] = 0]
    /\ UNCHANGED <<clock, markers, failures, crashes, fired, tickerC,
                   behaviorProcessors, startDate, invoked, conf>>
    /\ UNCHANGED taskVars

\* the replica's process dies with a claim it has not released
Crash(r) ==
    /\ loop[r] = "update"
    /\ \E b \in AllTypes : gpc[r][b] \in {"verify", "lose", "run", "finish"}
    /\ crashes < MaxCrashes
    /\ crashes' = crashes + 1
    /\ loop' = [loop EXCEPT ![r] = "crashed"]
    /\ gpc' = [gpc EXCEPT ![r] = [b \in AllTypes |-> "crashed"]]
    /\ outcome' = [outcome EXCEPT ![r] = IdleGoroutines]
    /\ taskID' = [taskID EXCEPT ![r] = NoIDs]
    /\ startDate' = [startDate EXCEPT ![r] = NoDates]
    /\ seen' = [seen EXCEPT ![r] = NoRows]
    /\ tickerTime' = [tickerTime EXCEPT ![r] = 0]
    /\ deadline' = [deadline EXCEPT ![r] = 0]
    /\ tickerC' = [tickerC EXCEPT ![r] = 0]
    /\ UNCHANGED <<clock, markers, failures, fired, behaviorProcessors,
                   invoked, conf>>
    /\ UNCHANGED taskVars

Next ==
    \/ TickerFire
    \/ Tick
    \/ \E r \in Replicas : StartUpdate(r)
    \/ \E r \in Replicas, b \in AllTypes : InsertTask(r, b)
    \/ \E r \in Replicas, b \in AllTypes : CommitTask(r, b)
    \/ \E r \in Replicas, b \in AllTypes : CheckOldest(r, b)
    \/ \E r \in Replicas, b \in AllTypes : DeleteTask(r, b)
    \/ \E r \in Replicas, b \in AllTypes : ProcessorReturn(r, b)
    \/ \E r \in Replicas, b \in AllTypes : FinishTask(r, b)
    \/ \E r \in Replicas : FinishUpdate(r)
    \/ \E r \in Replicas : NextIteration(r)
    \/ \E r \in Replicas : Crash(r)

Spec == Init /\ [][Next]_vars

SpecRegistry == InitRegistry /\ [][Next]_vars

\* The goroutine of a behavior type is scheduled: a processor that was called
\* returns, and the deferred completion that follows it runs.
Fairness ==
    \A r \in Replicas, b \in AllTypes :
        /\ WF_vars(ProcessorReturn(r, b))
        /\ WF_vars(FinishTask(r, b))

SpecLive == Init /\ [][Next]_vars /\ Fairness

\* ----------------------------------------------------------------- app.go
\* a store operation of a request or of a processor pass fails
StoreFails == failures < MaxFailures /\ failures' = failures + 1

\* the checks without the one on a blank initial status
CreateTaskErrorNoBlank(req) ==
    IF req.type = "" THEN "Task type must be provided"
    ELSE IF \E i \in DOMAIN req.behaviors : req.behaviors[i].btype = ""
         THEN "All behaviors must have a type"
    ELSE IF Len(req.statuses) > 1
         THEN "A new task may only include one initial status"
    ELSE ""

\* the checks of CreateTaskRequest on the decoded body, in the order of the
\* code: the message of the first one that fails, "" when all pass
CreateTaskError(req) ==
    IF req.type = "" THEN "Task type must be provided"
    ELSE IF \E i \in DOMAIN req.behaviors : req.behaviors[i].btype = ""
         THEN "All behaviors must have a type"
    ELSE IF Len(req.statuses) > 1
         THEN "A new task may only include one initial status"
    ELSE IF Len(req.statuses) > 0 /\ req.statuses[1] = ""
         THEN "A blank status is not allowed"
    ELSE ""

\* insert_task of the store: what it requires of the task, with the
\* uniqueness of (task, behavior_type)
InsertTaskAccepts(task) ==
    /\ task.type # ""
    /\ Len(task.statuses) <= 1
    /\ \A i \in DOMAIN task.statuses : task.statuses[i] # ""
    /\ \A i \in DOMAIN task.behaviors : task.behaviors[i].btype # ""
    /\ \A i, j \in DOMAIN task.behaviors :
          task.behaviors[i].btype = task.behaviors[j].btype => i = j

\* the row insert_task writes: start_date and created_date default to now
InsertedTask(task, id, now) ==
    Task(id, task.type, now, Null,
         [i \in DOMAIN task.statuses |-> [status |-> task.statuses[i], created |-> now]],
         task.behaviors)

\* errored writes 500, http.StatusCreated is 201
StatusInternalServerError == 500
StatusCreated == 201
\* badRequest writes 400, notFound writes 404
StatusBadRequest == 400
StatusNotFound == 404

\* the request as the response records it: the fields CreateTaskRequest
\* examines, without the data of the behaviors
Answer(req, code, ops, id) ==
    [n |-> response.n + 1, op |-> "CreateTask",
     req |-> [req EXCEPT !.behaviors =
                 [i \in DOMAIN req.behaviors |-> Behavior(req.behaviors[i].btype, <<>>)]],
     code |-> code, ops |-> ops, id |-> id]

\* POST /tasks
CreateTaskRequest(req) ==
    /\ response.n < conf.requests
    /\ \/ /\ CreateTaskError(req) # ""
          /\ response' = Answer(req, StatusInternalServerError, <<>>, 0)
          /\ UNCHANGED <<clock, failures, asyncTasks, nextID>>
       \/ /\ CreateTaskError(req) = ""
          /\ \/ /\ StoreFails
                /\ response' = Answer(req, StatusInternalServerError, <<"BeginTx">>, 0)
                /\ UNCHANGED <<clock, asyncTasks, nextID>>
             \/ /\ IF InsertTaskAccepts(req) THEN StoreFails ELSE UNCHANGED failures
                /\ response' = Answer(req, StatusInternalServerError,
                                      <<"BeginTx", "InsertTask">>, 0)
                /\ UNCHANGED <<clock, asyncTasks, nextID>>
             \/ /\ InsertTaskAccepts(req)
                /\ nextID <= conf.requests
                /\ StoreFails
                /\ response' = Answer(req, StatusCreated,
                                      <<"BeginTx", "InsertTask", "Commit">>, nextID)
                /\ nextID' = nextID + 1
                /\ UNCHANGED <<clock, asyncTasks>>
             \/ /\ InsertTaskAccepts(req)
                /\ nextID <= conf.requests
                /\ TimeCanPass(clock + 1)
                /\ asyncTasks' = asyncTasks \cup {InsertedTask(req, nextID, clock)}
                /\ response' = Answer(req, StatusCreated,
                                      <<"BeginTx", "InsertTask", "Commit">>, nextID)
                /\ nextID' = nextID + 1
                /\ clock' = clock + 1
                /\ UNCHANGED failures
    /\ UNCHANGED <<scan, passes>>
    /\ UNCHANGED loopVars

\* a caller of the API sends a create request with one of the bodies
PostTask ==
    /\ response.n < conf.requests
    /\ \E kind \in conf.payloads : \E req \in Payloads(kind) : CreateTaskRequest(req)

\* ------------------------------------------------ statuschangetimeout.go
\* the zero time.Time comparisonTimestamp starts from: before every date
ZeroTime == 0 - OneYear

\* the store operations of one pass at most: BeginTx, GetTask, three for
\* each rule, Commit
MaxOps == 3 + 3 * MaxRules

\* the stored task with the id, as a set
Stored(ID) == { t \in asyncTasks : t.id = ID }

\* get_task of the store with the children: the statuses come in any order
GetTask(ID) ==
    IF Stored(ID) = {} THEN {NoTask}
    ELSE LET t == CHOOSE u \in Stored(ID) : TRUE
             n == Len(t.statuses)
         IN  { [t EXCEPT !.statuses = [i \in 1..n |-> t.statuses[p[i]]]] :
                 p \in { q \in [1..n -> 1..n] :
                            \A i, j \in 1..n : q[i] = q[j] => i = j } }

\* the loop over fullTask.Statuses, from status i on
RECURSIVE ComparisonLoop(_, _, _)
ComparisonLoop(statuses, i, cmp) ==
    IF i > Len(statuses) THEN cmp
    ELSE IF statuses[i].created > cmp.ts
         THEN ComparisonLoop(statuses, i + 1,
                             [ts |-> statuses[i].created, st |-> statuses[i].status])
         ELSE ComparisonLoop(statuses, i + 1, cmp)

\* a comparison that takes the first status row instead of the latest
ComparisonFirstRow(fullTask) ==
    IF Len(fullTask.statuses) = 0
    THEN [ts |-> fullTask.start, st |-> ""]
    ELSE [ts |-> fullTask.statuses[1].created, st |-> fullTask.statuses[1].status]

\* comparisonTimestamp and comparisonStatus
Comparison(fullTask) ==
    IF Len(fullTask.statuses) = 0
    THEN [ts |-> fullTask.start, st |-> ""]
    ELSE ComparisonLoop(fullTask.statuses, 1, [ts |-> ZeroTime, st |-> ""])

\* a condition that already holds at the instant the timeout ends
RuleFiresAtTimeout(rule, cmp, now) ==
    /\ cmp.ts + ParseDuration(rule.timeout).d <= now
    /\ cmp.st = rule.start_status

\* the condition under which a rule is applied
RuleFires(rule, cmp, now) ==
    /\ cmp.ts + ParseDuration(rule.timeout).d < now
    /\ cmp.st = rule.start_status

\* A transaction tx is the task as the transaction sees it, the store
\* operations issued so far and whether the last one failed.  The
\* operation number failAt fails in the store; refused says the store
\* refuses the operation for what it is.
TxOp(tx, name, failAt, refused, task) ==
    LET failed == refused \/ Len(tx.ops) + 1 = failAt
    IN  [tx EXCEPT !.ops = Append(@, name),
                   !.err = failed,
                   !.task = IF failed THEN @ ELSE task]

\* insert_task_status: fails if the task does not exist
TxInsertTaskStatus(tx, status, now, failAt) ==
    TxOp(tx, "InsertTaskStatus", failAt, tx.task = NoTask,
         [tx.task EXCEPT !.statuses = Append(@, [status |-> status, created |-> now])])

\* complete_task: sets end_date to the current time if unset
TxCompleteTask(tx, now, failAt) ==
    TxOp(tx, "CompleteTask", failAt, FALSE,
         IF tx.task = NoTask \/ tx.task.end # Null THEN tx.task
         ELSE [tx.task EXCEPT !.end = now])

\* delete_task: removes the task with its statuses and behaviors
TxDeleteTask(tx, failAt) == TxOp(tx, "DeleteTask", failAt, FALSE, NoTask)

\* the body of the if of a rule that fires
ApplyRule(tx, rule, now, failAt) ==
    LET t1 == TxInsertTaskStatus(tx, rule.end_status, now, failAt)
        t2 == IF rule.complete THEN TxCompleteTask(t1, now, failAt) ELSE t1
        t3 == IF rule.delete THEN TxDeleteTask(t2, failAt) ELSE t2
    IN  IF t1.err THEN t1 ELSE IF t2.err THEN t2 ELSE t3

\* a loop that takes the end_status of a rule it applied as the comparison
\* status of the rules after it
RECURSIVE RulesLoopRecompute(_, _, _, _, _, _)
RulesLoopRecompute(rules, i, cmp, now, tx, failAt) ==
    IF i > Len(rules) THEN tx
    ELSE IF ~rules[i].decodes \/ ~ParseDuration(rules[i].timeout).ok
         THEN RulesLoopRecompute(rules, i + 1, cmp, now, tx, failAt)
    ELSE IF RuleFires(rules[i], cmp, now)
         THEN LET t == ApplyRule([tx EXCEPT !.fired = Append(@, i)],
                                 rules[i], now, failAt)
              IN  IF t.err THEN t
                  ELSE RulesLoopRecompute(rules, i + 1,
                                          [cmp EXCEPT !.st = rules[i].end_status],
                                          now, t, failAt)
    ELSE RulesLoopRecompute(rules, i + 1, cmp, now, tx, failAt)

\* a loop that returns an error at a rule that does not decode or whose
\* timeout does not parse
RECURSIVE RulesLoopAbort(_, _, _, _, _, _)
RulesLoopAbort(rules, i, cmp, now, tx, failAt) ==
    IF i > Len(rules) THEN tx
    ELSE IF ~rules[i].decodes \/ ~ParseDuration(rules[i].timeout).ok
         THEN [tx EXCEPT !.err = TRUE]
    ELSE IF RuleFires(rules[i], cmp, now)
         THEN LET t == ApplyRule([tx EXCEPT !.fired = Append(@, i)],
                                 rules[i], now, failAt)
              IN  IF t.err THEN t
                  ELSE RulesLoopAbort(rules, i + 1, cmp, now, t, failAt)
    ELSE RulesLoopAbort(rules, i + 1, cmp, now, tx, failAt)

\* the loop over the data of the behavior, from rule i on
RECURSIVE RulesLoop(_, _, _, _, _, _)
RulesLoop(rules, i, cmp, now, tx, failAt) ==
    IF i > Len(rules) THEN tx
    ELSE IF ~rules[i].decodes \/ ~ParseDuration(rules[i].timeout).ok
         THEN RulesLoop(rules, i + 1, cmp, now, tx, failAt)
    ELSE IF RuleFires(rules[i], cmp, now)
         THEN LET t == ApplyRule([tx EXCEPT !.fired = Append(@, i)],
                                 rules[i], now, failAt)
              IN  IF t.err THEN t
                  ELSE RulesLoop(rules, i + 1, cmp, now, t, failAt)
    ELSE RulesLoop(rules, i + 1, cmp, now, tx, failAt)

\* the loop over fullTask.Behaviors, from behavior k on
RECURSIVE BehaviorsLoop(_, _, _, _, _, _)
BehaviorsLoop(behaviors, k, cmp, now, tx, failAt) ==
    IF k > Len(behaviors) THEN tx
    ELSE IF behaviors[k].btype = "statuschangetimeout"
         THEN LET t == RulesLoop(behaviors[k].rules, 1, cmp, now, tx, failAt)
              IN  IF t.err THEN t
                  ELSE BehaviorsLoop(behaviors, k + 1, cmp, now, t, failAt)
    ELSE BehaviorsLoop(behaviors, k + 1, cmp, now, tx, failAt)

\* a pass that commits what it has done so far when an operation fails
PassTxNoRollback(stored, fullTask, now, failAt) ==
    LET begin == [task |-> stored, ops |-> <<"BeginTx">>, err |-> failAt = 1,
                  fired |-> <<>>, committed |-> FALSE]
        got == TxOp(begin, "GetTask", failAt, FALSE, stored)
        done == BehaviorsLoop(fullTask.behaviors, 1, Comparison(fullTask), now,
                              got, failAt)
        commit == TxOp(done, "Commit", failAt, FALSE, done.task)
    IN  IF begin.err THEN begin
        ELSE IF got.err THEN got
        ELSE IF done.err THEN [done EXCEPT !.committed = TRUE]
        ELSE [commit EXCEPT !.committed = ~commit.err, !.err = FALSE]

\* processSingleTask with fullTask what GetTask returns: the transaction
\* when the function returns, committed or rolled back
PassTx(stored, fullTask, now, failAt) ==
    LET begin == [task |-> stored, ops |-> <<"BeginTx">>, err |-> failAt = 1,
                  fired |-> <<>>, committed |-> FALSE]
        got == TxOp(begin, "GetTask", failAt, FALSE, stored)
        done == BehaviorsLoop(fullTask.behaviors, 1, Comparison(fullTask), now,
                              got, failAt)
        commit == TxOp(done, "Commit", failAt, FALSE, done.task)
    IN  IF begin.err THEN begin
        ELSE IF got.err THEN got
        ELSE IF done.err THEN done
        ELSE [commit EXCEPT !.committed = ~commit.err, !.err = FALSE]

\* the record of a call of processSingleTask
Pass(ID, now, before, after, cmp, tx) ==
    [id |-> ID, now |-> now, before |-> before, after |-> after,
     cmpStatus |-> cmp.st, cmpTime |-> cmp.ts, fired |-> tx.fired,
     ops |-> tx.ops, err |-> tx.err, committed |-> tx.committed]

LastTwo(seq) == IF Len(seq) > 2 THEN Tail(seq) ELSE seq

\* Processor up to the loop: the tasks with a statuschangetimeout behavior,
\* those with an end_date first
ScanOrders ==
    LET rows == { t \in asyncTasks :
                    \E k \in DOMAIN t.behaviors :
                        t.behaviors[k].btype = "statuschangetimeout" }
    IN  { s \in [1..Cardinality(rows) -> rows] :
            /\ \A i, j \in DOMAIN s : s[i] = s[j] => i = j
            /\ \A i, j \in DOMAIN s :
                  (i < j /\ s[j].end # Null) => s[i].end # Null }

ProcessorBegin ==
    /\ scan.pc = "idle"
    /\ scan.n < MaxScans
    /\ \/ /\ StoreFails
          /\ scan' = [scan EXCEPT !.n = @ + 1, !.err = TRUE]
       \/ /\ \E tasks \in ScanOrders :
                scan' = [n |-> scan.n + 1, pc |-> "loop",
                         ids |-> [i \in DOMAIN tasks |-> tasks[i].id],
                         canceled |-> FALSE, err |-> FALSE]
          /\ UNCHANGED failures
    /\ UNCHANGED <<clock, asyncTasks, nextID, response, passes>>
    /\ UNCHANGED loopVars

\* a loop that does not look at its context
CtxNeverDone == FALSE

\* ctx.Done() of the context of the Processor, as ProcessLoop and
\* processSingleTask select on it
CtxDone == scan.canceled

\* one turn of ProcessLoop: processSingleTask of the next task
ProcessSingleTask ==
    /\ scan.pc = "loop"
    /\ scan.ids # <<>>
    /\ ~CtxDone
    /\ LET ID == Head(scan.ids)
           before == IF Stored(ID) = {} THEN NoTask ELSE CHOOSE t \in Stored(ID) : TRUE
       IN  \E failAt \in 0..MaxOps : \E fullTask \in GetTask(ID) :
             LET tx == PassTx(before, fullTask, clock, failAt)
                 after == IF tx.committed THEN tx.task ELSE before
             IN  /\ fullTask # NoTask
                 /\ IF failAt = 0 THEN UNCHANGED failures
                    ELSE Len(tx.ops) = failAt /\ StoreFails
                 /\ IF tx.committed
                    THEN /\ TimeCanPass(clock + 1)
                         /\ clock' = clock + 1
                    ELSE UNCHANGED clock
                 /\ asyncTasks' = (asyncTasks \ Stored(ID)) \cup ({after} \ {NoTask})
                 /\ passes' = LastTwo(Append(passes,
                                  Pass(ID, clock, before, after, Comparison(fullTask), tx)))
    /\ scan' = [scan EXCEPT !.ids = Tail(@)]
    /\ UNCHANGED <<nextID, response>>
    /\ UNCHANGED loopVars

\* the context of the Processor is canceled while tasks are left to process
ContextDone ==
    /\ scan.pc = "loop"
    /\ scan.ids # <<>>
    /\ ~scan.canceled
    /\ scan' = [scan EXCEPT !.canceled = TRUE]
    /\ UNCHANGED <<clock, failures, asyncTasks, nextID, response, passes>>
    /\ UNCHANGED loopVars

\* ProcessLoop ends, at the end of the tasks or by the canceled context,
\* and Processor returns nil
ProcessorEnd ==
    /\ scan.pc = "loop"
    /\ scan.ids = <<>> \/ CtxDone
    /\ scan' = [scan EXCEPT !.pc = "idle", !.ids = <<>>, !.canceled = FALSE]
    /\ UNCHANGED <<clock, failures, asyncTasks, nextID, response, passes>>
    /\ UNCHANGED loopVars

\* the processor over the tasks that callers create with rules of every kind
InitTasks == InitState({}, 0, {}, {"rules"}, MaxTasks)

NextTasks ==
    \/ PostTask
    \/ ProcessorBegin
    \/ ProcessSingleTask
    \/ ContextDone
    \/ ProcessorEnd
    \/ Tick

SpecTasks == InitTasks /\ [][NextTasks]_vars

\* the processor over two tasks whose rules are due at once
InitScan == InitState({}, 0, {}, {"scan"}, MaxScanTasks)

NextScan ==
    \/ PostTask
    \/ ProcessorBegin
    \/ ProcessSingleTask
    \/ ContextDone
    \/ ProcessorEnd

SpecScan == InitScan /\ [][NextScan]_vars

\* the processor over two tasks with rules that do not decode or parse
InitSkip == InitState({}, 0, {}, {"skip"}, MaxScanTasks)

SpecSkip == InitSkip /\ [][NextScan]_vars

\* ------------------------------------------------ app.go, AddStatusRequest
\* the answer to an append-status request: the request is recorded as the
\* id of the URL and the status of the body
StatusAnswer(ID, status, code, ops) ==
    [n |-> response.n + 1, op |-> "AddStatus",
     req |-> Task(ID, "", Null, Null, <<status>>, <<>>),
     code |-> code, ops |-> ops, id |-> ID]

\* POST /tasks/{id}/status, with ?complete or without
AddStatusRequest(ID, status, complete) ==
    /\ response.n < conf.requests
    /\ \/ /\ StoreFails
          /\ response' = StatusAnswer(ID, status, StatusInternalServerError, <<"BeginTx">>)
          /\ UNCHANGED <<clock, asyncTasks>>
       \/ /\ StoreFails
          /\ response' = StatusAnswer(ID, status, StatusInternalServerError,
                                      <<"BeginTx", "GetTask">>)
          /\ UNCHANGED <<clock, asyncTasks>>
       \/ /\ Stored(ID) = {}
          /\ response' = StatusAnswer(ID, status, StatusNotFound, <<"BeginTx", "GetTask">>)
          /\ UNCHANGED <<clock, failures, asyncTasks>>
       \/ /\ Stored(ID) # {}
          /\ LET tx0 == [task |-> CHOOSE t \in Stored(ID) : TRUE,
                         ops |-> <<"BeginTx", "GetTask">>, err |-> FALSE]
                 t1 == TxInsertTaskStatus(tx0, status, clock, 0)
                 t2 == IF complete THEN TxCompleteTask(t1, clock, 0) ELSE t1
             IN  \/ /\ StoreFails
                    /\ \E k \in 1..(Len(t2.ops) - 2) :
                          response' = StatusAnswer(ID, status, StatusInternalServerError,
                                                   SubSeq(t2.ops, 1, k + 2))
                    /\ UNCHANGED <<clock, asyncTasks>>
                 \/ /\ StoreFails
                    /\ response' = StatusAnswer(ID, status, StatusCreated,
                                                Append(t2.ops, "Commit"))
                    /\ UNCHANGED <<clock, asyncTasks>>
                 \/ /\ TimeCanPass(clock + 1)
                    /\ asyncTasks' = (asyncTasks \ Stored(ID)) \cup {t2.task}
                    /\ response' = StatusAnswer(ID, status, StatusCreated,
                                                Append(t2.ops, "Commit"))
                    /\ clock' = clock + 1
                    /\ UNCHANGED failures
    /\ UNCHANGED <<nextID, scan, passes>>
    /\ UNCHANGED loopVars

\* a caller of the API appends a status to a task it created, or to a task
\* that does not exist
PostStatus ==
    \E ID \in 1..nextID, status \in {"", "a"}, complete \in BOOLEAN :
        AddStatusRequest(ID, status, complete)

\* the API alone, with callers that send every shape of create request and
\* append statuses
InitAPI == InitState({}, 0, {}, {"fields"}, MaxRequests)

NextAPI ==
    \/ PostTask
    \/ PostStatus

SpecAPI == InitAPI /\ [][NextAPI]_vars

\* ------------------------------------------------------------- the claims
\* the marker rows of type b that are not completed
Uncompleted(b) == { m \in markers : m.btype = b /\ m.end = Null }

\* the committed marker of the goroutine of r for type b, as a set
OwnMarker(r, b) == { m \in markers : m.id = taskID[r][b] }

\* the tick an id was claimed for
TickOf(id) == id[3]

\* C1: for each behavior type and each scheduling tick, at most one replica
\* invokes the processor, also when the attempts do not overlap in time.
C1_OneInvocationPerTick ==
    \A i, j \in invoked :
        (i[2] = j[2] /\ TickOf(i) = TickOf(j)) => i[1] = j[1]

\* C2: provided the start_dates of the markers are distinct (and processors
\* return by the tick deadline, which TimeCanPass states), two replicas are
\* never inside the processor of the same behavior type at the same moment.
C2_DistinctStartDates ==
    \A m, n \in markers : (m.btype = n.btype /\ m.start = n.start) => m.id = n.id

C2_MutualExclusion ==
    C2_DistinctStartDates =>
        \A b \in AllTypes : \A r1, r2 \in Replicas :
            (gpc[r1][b] = "run" /\ gpc[r2][b] = "run") => r1 = r2

\* C3: of two replicas whose attempts overlap in time (both have verified, none
\* has released), with no other uncompleted marker in the window, exactly one
\* runs the processor and the other goes on to delete its marker.
C3_Overlap(r1, r2, b) ==
    /\ r1 # r2
    /\ gpc[r1][b] \in {"run", "lose"} /\ outcome[r1][b] \in {"won", "lost"}
    /\ gpc[r2][b] \in {"run", "lose"} /\ outcome[r2][b] \in {"won", "lost"}
    /\ GetTasksByFilter(OldestFilter(b, clock)) \subseteq OwnMarker(r1, b) \cup OwnMarker(r2, b)

C3_ExactlyOneRuns ==
    \A b \in AllTypes : \A r1, r2 \in Replicas :
        C3_Overlap(r1, r2, b) =>
            \/ gpc[r1][b] = "run" /\ gpc[r2][b] = "lose"
            \/ gpc[r1][b] = "lose" /\ gpc[r2][b] = "run"

\* C4: two replicas whose markers carry the same start_date, each returned by
\* the other's verify query, never both conclude that they won.
C4_Tied(r1, r2, b) ==
    /\ r1 # r2
    /\ taskID[r1][b] \in seen[r2][b]
    /\ taskID[r2][b] \in seen[r1][b]
    /\ \E m \in OwnMarker(r1, b) : \E n \in OwnMarker(r2, b) : m.start = n.start

C4_SingleWinnerOnTie ==
    \A b \in AllTypes : \A r1, r2 \in Replicas :
        C4_Tied(r1, r2, b) => ~(Won(r1, b) /\ Won(r2, b))

\* C5: a marker left uncompleted whose start_date is older than the safety
\* margin is not returned by a verify query, and does not make a later claim
\* lose: a claim that verifies without a store error loses only to an
\* uncompleted marker of its type inside the window, and wins and runs the
\* processor when every other uncompleted marker of its type is older.
C5_InWindow(m, now) == m.start >= now - SafetyMargin

C5_StaleClaimRecovery ==
    [][\A r \in Replicas : \A b \in AllTypes :
         (gpc[r][b] = "verify" /\ outcome'[r][b] \in {"won", "lost"}) =>
            /\ \A m \in Uncompleted(b) : ~C5_InWindow(m, clock) => m.id \notin seen'[r][b]
            /\ (\A m \in Uncompleted(b) : m.id # taskID[r][b] => ~C5_InWindow(m, clock))
                  => (outcome'[r][b] = "won" /\ gpc'[r][b] = "run")
            /\ outcome'[r][b] = "lost" =>
                  \E m \in Uncompleted(b) : m.id # taskID[r][b] /\ C5_InWindow(m, clock)]_vars

\* C5 witness: the marker of a crashed winner is still uncompleted in the
\* store and a live replica that claimed later is inside the processor.
C5_Witness ==
    \E r \in Replicas : \E m \in markers :
        /\ loop[m.id[1]] = "crashed"
        /\ m.id \in invoked
        /\ m.end = Null
        /\ r # m.id[1]
        /\ gpc[r][m.btype] = "run"
        /\ m.id \notin seen[r][m.btype]
        /\ \E n \in OwnMarker(r, m.btype) : n.start > m.start + SafetyMargin

\* C6: when DoPeriodicUpdate returns, every marker it created is completed or
\* deleted: none is left with a null end_date.
C6_NoMarkerLeftOpen ==
    \A r \in Replicas : \A b \in AllTypes :
        loop[r] = "returned" => \A m \in OwnMarker(r, b) : m.end # Null


\* C7: a failure of one behavior type's attempt (insert error, verify error,
\* lost race, processor error) leaves the attempts of the other registered
\* types alone: no step of one goroutine changes another goroutine of the
\* replica, DoPeriodicUpdate returns only when every registered type's attempt
\* has come to its end, and after it the timer loop goes on to the next tick.
C7_Failed(r, b) == outcome[r][b] \in {"insertErr", "verifyErr", "lost", "procErr"}

C7_AttemptsComplete ==
    \A r \in Replicas :
        /\ loop[r] = "returned" =>
              /\ \A b \in behaviorProcessors : gpc[r][b] = "done" /\ outcome[r][b] # "none"
              /\ ENABLED NextIteration(r)
        /\ (loop[r] = "wait" /\ tickerC[r] # 0) => ENABLED StartUpdate(r)

C7_SiblingsUntouched ==
    \A r \in Replicas : \A b, c \in AllTypes :
        (b # c /\ loop'[r] = loop[r] /\ gpc'[r][b] # gpc[r][b]) =>
            /\ gpc'[r][c] = gpc[r][c]
            /\ outcome'[r][c] = outcome[r][c]
            /\ taskID'[r][c] = taskID[r][c]

C7_FailureIsolation == []C7_AttemptsComplete /\ [][C7_SiblingsUntouched]_vars

\* C7 witness: DoPeriodicUpdate has returned from a tick in which one type's
\* attempt failed and the other type's processor ran and its marker was
\* completed, and the next tick is waiting in ticker.C.
C7_Witness ==
    \E r \in Replicas : \E b, c \in behaviorProcessors :
        /\ loop[r] = "returned"
        /\ tickerC[r] # 0
        /\ C7_Failed(r, b)
        /\ outcome[r][c] = "procOk"
        /\ \E m \in OwnMarker(r, c) : m.end # Null


\* the elements of a sequence
Range(seq) == { seq[i] : i \in DOMAIN seq }

\* the rules of the statuschangetimeout behavior of a task
RulesOf(task) ==
    IF \E k \in DOMAIN task.behaviors : task.behaviors[k].btype = "statuschangetimeout"
    THEN task.behaviors[CHOOSE k \in DOMAIN task.behaviors :
                          task.behaviors[k].btype = "statuschangetimeout"].rules
    ELSE <<>>

\* the statuses of a task with the latest created_date
LatestStatuses(task) ==
    { s \in Range(task.statuses) : \A u \in Range(task.statuses) : u.created <= s.created }

\* the minutes of a timeout that is a duration
Minutes(timeout) == IF timeout = "2m" THEN 2 ELSE 0

\* the rules of pass p that are due: the rule is well-formed, its
\* start_status is the comparison status and comparison timestamp + timeout
\* is earlier than the time of the pass
Due(p) ==
    { i \in DOMAIN RulesOf(p.before) :
        LET rule == RulesOf(p.before)[i]
        IN  /\ rule.decodes
            /\ rule.timeout \in {"0s", "2m"}
            /\ rule.start_status = p.cmpStatus
            /\ p.cmpTime + Minutes(rule.timeout) < p.now }

\* C8: in a pass of processSingleTask that runs to its commit, the comparison
\* status is empty with the start_date as timestamp for a task without
\* statuses, else a status with the latest created_date; a rule appends its
\* end_status if and only if its start_status is the comparison status and
\* comparison timestamp + timeout is earlier than the current time, and then
\* end_date is set if the rule has complete; when no rule is due the pass
\* changes nothing about the task.
C8_ComparisonIsLatest(p) ==
    IF p.before.statuses = <<>>
    THEN p.cmpStatus = "" /\ p.cmpTime = p.before.start
    ELSE \E s \in LatestStatuses(p.before) :
            p.cmpStatus = s.status /\ p.cmpTime = s.created

C8_Effect(p) ==
    LET rules == RulesOf(p.before)
        completes == \E i \in Due(p) : rules[i].complete
        deletes == \E i \in Due(p) : rules[i].delete
    IN  /\ Range(p.fired) = Due(p)
        /\ \A j, k \in DOMAIN p.fired : j < k => p.fired[j] < p.fired[k]
        /\ Due(p) = {} => p.after = p.before
        /\ (Due(p) # {} /\ ~deletes) =>
              /\ p.after.statuses = p.before.statuses \o
                    [j \in DOMAIN p.fired |->
                        [status |-> rules[p.fired[j]].end_status, created |-> p.now]]
              /\ p.after.end = IF completes /\ p.before.end = Null
                               THEN p.now ELSE p.before.end
              /\ completes => p.after.end # Null
              /\ p.after.id = p.before.id /\ p.after.type = p.before.type
              /\ p.after.start = p.before.start
              /\ p.after.behaviors = p.before.behaviors

C8_StatusChangeTimeout ==
    \A k \in DOMAIN passes :
        passes[k].committed => C8_ComparisonIsLatest(passes[k]) /\ C8_Effect(passes[k])

\* C8 witness: a task without statuses and with a rule of timeout 2m and
\* complete set was passed over before the timeout had elapsed, unchanged,
\* and again after it, with the end_status appended and the end_date set.
C8_Witness ==
    /\ Len(passes) = 2
    /\ passes[1].committed /\ passes[1].fired = <<>>
    /\ passes[1].after = passes[1].before
    /\ passes[2].committed /\ passes[2].before = passes[1].after
    /\ passes[2].before.statuses = <<>>
    /\ \E i \in Range(passes[2].fired) :
          LET rule == RulesOf(passes[2].before)[i]
          IN  /\ rule.timeout = "2m" /\ rule.complete /\ ~rule.delete
              /\ passes[2].after.end = passes[2].now
              /\ \E j \in DOMAIN passes[2].after.statuses :
                    passes[2].after.statuses[j].status = rule.end_status

\* C9 takes two passes over the same task, the second right after the commit
\* of the first with nothing done to the task in between, where the first
\* appended the end_status of rules whose end_status differs from their
\* start_status.
C9_TwoPasses ==
    /\ Len(passes) = 2
    /\ passes[1].committed /\ passes[2].committed
    /\ passes[1].fired # <<>>
    /\ \A i \in Range(passes[1].fired) :
          RulesOf(passes[1].before)[i].end_status # RulesOf(passes[1].before)[i].start_status
    /\ passes[1].after # NoTask
    /\ passes[2].id = passes[1].id
    /\ passes[2].before = passes[1].after
    /\ passes[2].now = passes[1].now + 1

\* C9 as stated: the second of the two passes appends nothing.
C9_SecondPassAppendsNothing ==
    C9_TwoPasses => passes[2].fired = <<>> /\ passes[2].after = passes[2].before

\* C9 amended: in the second of the two passes the comparison status is an
\* end_status the first pass appended and differs from the comparison status
\* of the first pass, and no rule that fired in the first pass fires again;
\* a rule that fires in the second pass is another rule, whose start_status
\* is that appended status.
C9_RuleFiresOnce ==
    C9_TwoPasses =>
        LET rules == RulesOf(passes[1].before)
        IN  /\ passes[2].cmpStatus \in { rules[i].end_status : i \in Range(passes[1].fired) }
            /\ passes[2].cmpStatus # passes[1].cmpStatus
            /\ passes[2].cmpTime = passes[1].now
            /\ Range(passes[2].fired) \cap Range(passes[1].fired) = {}
            /\ \A j \in Range(passes[2].fired) :
                  rules[j].start_status = passes[2].cmpStatus

\* C9 witness: a rule with timeout 0s fired in the first pass and the second
\* pass, one commit later, appended nothing.
C9_Witness ==
    /\ C9_TwoPasses
    /\ \E i \in Range(passes[1].fired) : RulesOf(passes[1].before)[i].timeout = "0s"
    /\ passes[2].fired = <<>>
    /\ passes[2].after = passes[1].after

\* C10: a create request whose type is empty, that has more than one initial
\* status, whose single initial status is the empty string, or that has a
\* behavior with an empty behavior type is answered with an error before any
\* store operation is issued, and the tasks of the store are unchanged.
C10_Invalid(req) ==
    \/ req.type = ""
    \/ Len(req.statuses) > 1
    \/ Len(req.statuses) = 1 /\ req.statuses[1] = ""
    \/ \E i \in DOMAIN req.behaviors : req.behaviors[i].btype = ""

C10_RejectedBeforeStore ==
    [][(response'.n # response.n /\ response'.op = "CreateTask"
            /\ C10_Invalid(response'.req)) =>
          /\ response'.code = StatusInternalServerError
          /\ response'.ops = <<>>
          /\ asyncTasks' = asyncTasks
          /\ nextID' = nextID]_vars

\* C10 witness: with a task in the store, a create request with the single
\* initial status "" has been rejected with no store operation.
C10_Witness ==
    /\ asyncTasks # {}
    /\ response.n = 2
    /\ response.op = "CreateTask"
    /\ response.req.type = "t"
    /\ response.req.statuses = <<"">>
    /\ \A i \in DOMAIN response.req.behaviors : response.req.behaviors[i].btype # ""
    /\ response.code = StatusInternalServerError
    /\ response.ops = <<>>

\* C11: the API answers in three classes: a request rejected for malformed
\* or missing input (rejected before any store operation) gets the bad-input
\* severity, a request that names an absent task the not-found severity, a
\* store failure the internal-failure severity; a validation rejection never
\* gets the severity of a store failure.
C11_ValidationRejected ==
    /\ response.op = "CreateTask"
    /\ C10_Invalid(response.req)

C11_StoreFailed ==
    /\ response.n > 0
    /\ response.ops # <<>>
    /\ response.code \notin {StatusCreated, StatusNotFound}

C11_ThreeErrorClasses ==
    /\ C11_ValidationRejected =>
          response.code = StatusBadRequest /\ response.code # StatusInternalServerError
    /\ (response.op = "AddStatus" /\ response.ops = <<"BeginTx", "GetTask">>
          /\ response.code # StatusInternalServerError) =>
          response.code = StatusNotFound
    /\ C11_StoreFailed => response.code = StatusInternalServerError

\* C12: every status stored for a task has a non-empty status string,
\* whichever operation appended it: the initial status of a create, an
\* append-status request or a rule's end_status.
C12_NoBlankStatus ==
    \A t \in asyncTasks : \A i \in DOMAIN t.statuses : t.statuses[i].status # ""

\* C13: a replica that won the verify step completes its marker after the
\* processor returns, whatever the processor returned and also when the
\* context of the tick is canceled: the goroutine goes on from the processor
\* to the completion, and the completion sets end_date unless the store
\* itself fails it (or the process dies, or the horizon MaxTime is reached).
C13_Completes(r, b) ==
    (gpc[r][b] = "finish" /\ gpc'[r][b] = "done" /\ failures' = failures) =>
        \E m \in markers' : m.id = taskID[r][b] /\ m.end = clock

C13_ReachesCompletion ==
    \A r \in Replicas : \A b \in AllTypes :
        (gpc[r][b] = "run") ~> (gpc[r][b] \in {"done", "crashed"} \/ clock = MaxTime)

C13_MarkerCompletedAfterProcessor ==
    /\ C13_ReachesCompletion
    /\ [][\A r \in Replicas : \A b \in AllTypes : C13_Completes(r, b)]_vars

\* C13 witness: the processor returned at or after the deadline of the tick
\* and the marker of the replica has its end_date.
C13_Witness ==
    \E r \in Replicas : \E b \in AllTypes :
        /\ gpc[r][b] = "done"
        /\ outcome[r][b] \in {"procOk", "procErr"}
        /\ Canceled(r)
        /\ \E m \in OwnMarker(r, b) : m.end # Null /\ m.end >= deadline[r]

\* C14: a replica whose verify step finds a marker in the window that is
\* earlier than the one it claimed does not invoke the processor in that
\* attempt; the next change it makes to the store is the deletion of its own
\* marker: it never completes its marker and never removes or changes the
\* marker of another replica.
C14_Lost(r, b) == outcome[r][b] = "lost"

C14_LoserNeverRuns ==
    \A r \in Replicas : \A b \in AllTypes :
        C14_Lost(r, b) =>
            /\ gpc[r][b] \in {"lose", "done"}
            /\ taskID[r][b] \notin invoked
            /\ \A m \in OwnMarker(r, b) : m.end = Null

C14_VerifyStep(r, b) ==
    (/\ gpc[r][b] = "verify"
     /\ \E m \in markers : \E own \in OwnMarker(r, b) :
           m.id \in seen'[r][b] /\ m.start < own.start) =>
        /\ outcome'[r][b] = "lost"
        /\ gpc'[r][b] = "lose"
        /\ invoked' = invoked
        /\ markers' = markers

C14_LoserStep(r, b) ==
    (C14_Lost(r, b) /\ gpc[r][b] = "lose" /\ gpc'[r][b] # "lose") =>
        \/ markers' = markers
        \/ markers' = markers \ OwnMarker(r, b)

C14_LoserDeletesOwnMarker ==
    /\ []C14_LoserNeverRuns
    /\ [][\A r \in Replicas : \A b \in AllTypes :
             C14_VerifyStep(r, b) /\ C14_LoserStep(r, b)]_vars

\* C14 witness: a replica that lost has deleted its own marker, and the
\* marker of the other replica is still in the store.
C14_Witness ==
    \E r \in Replicas : \E b \in AllTypes :
        /\ C14_Lost(r, b)
        /\ gpc[r][b] = "done"
        /\ OwnMarker(r, b) = {}
        /\ \E m \in markers : m.btype = b /\ m.id # taskID[r][b]

\* C15: the verify window (SafetyMargin) is longer than the longest run the
\* deadline of the tick allows (TickTimeout): at every moment at which a
\* replica that won is still inside the processor, its uncompleted marker is
\* in the result of the verify query a replica would run at that moment.
C15_RunningClaimInWindow ==
    /\ SafetyMargin > TickTimeout
    /\ \A r \in Replicas : \A b \in AllTypes :
          gpc[r][b] = "run" =>
              \E m \in GetTasksByFilter(OldestFilter(b, clock)) :
                  m.id = taskID[r][b] /\ m.end = Null

\* C15 witness: a replica is inside the processor at the deadline of its
\* tick while another replica is about to run its verify query.
C15_Witness ==
    \E r1, r2 \in Replicas : \E b \in AllTypes :
        /\ r1 # r2
        /\ gpc[r1][b] = "run"
        /\ clock = deadline[r1]
        /\ gpc[r2][b] = "verify"
        /\ ~Canceled(r2)

\* C16: within a replica ticks never overlap: a new DoPeriodicUpdate starts
\* only when the previous call has returned and none of its goroutines is
\* left, so every attempt in progress belongs to the one tick in progress,
\* also when the ticker fires again while an update is running.
C16_TickStarts(r) ==
    (tickerTime'[r] # tickerTime[r] /\ tickerTime'[r] # 0) =>
        /\ loop[r] = "wait"
        /\ tickerTime[r] = 0
        /\ \A b \in AllTypes : gpc[r][b] = "none"

C16_OneTickInProgress ==
    \A r \in Replicas : \A b \in AllTypes :
        gpc[r][b] \notin {"none", "crashed"} =>
            /\ loop[r] \in {"update", "returned"}
            /\ tickerTime[r] # 0
            /\ taskID[r][b] \in {NoID, <<r, b, tickerTime[r]>>}

C16_TicksNeverOverlap ==
    /\ []C16_OneTickInProgress
    /\ [][\A r \in Replicas : C16_TickStarts(r)]_vars

\* C16 witness: the ticker has fired again while the update of the tick
\* before is still inside a processor; the tick waits in the channel.
C16_Witness ==
    \E r \in Replicas : \E b \in AllTypes :
        /\ loop[r] = "update"
        /\ gpc[r][b] = "run"
        /\ tickerC[r] # 0
        /\ tickerC[r] # tickerTime[r]

\* C17: DoPeriodicUpdate starts exactly one goroutine per registered behavior
\* type and none for any other; it returns only when each of them has
\* returned, which a goroutine with a committed marker does only through the
\* release of the marker (deleteTask after a loss, finishTask after the
\* processor); with no registered type it can return at once.
C17_Starts(r) ==
    (loop[r] = "wait" /\ loop'[r] = "update") =>
        \A b \in AllTypes :
            gpc'[r][b] = (IF b \in behaviorProcessors THEN "begin" ELSE "none")

C17_Returns(r) ==
    (loop[r] = "update" /\ loop'[r] = "returned") =>
        \A b \in AllTypes :
            gpc[r][b] = (IF b \in behaviorProcessors THEN "done" ELSE "none")

C17_GoroutineReturns(r, b) ==
    (gpc[r][b] # "done" /\ gpc'[r][b] = "done") =>
        \/ gpc[r][b] \in {"begin", "inserted"} /\ OwnMarker(r, b) = {}
        \/ /\ gpc[r][b] = "lose"
           /\ markers' = markers \ OwnMarker(r, b) \/ markers' = markers
        \/ /\ gpc[r][b] = "finish"
           /\ \/ markers' = markers
              \/ \E m \in markers' : m.id = taskID[r][b] /\ m.end = clock

C17_NoTypes ==
    \A r \in Replicas :
        (loop[r] = "update" /\ behaviorProcessors = {}) =>
            \A b \in AllTypes : gpc[r][b] = "none"

C17_OneGoroutinePerType ==
    /\ []C17_NoTypes
    /\ [][\A r \in Replicas :
             /\ C17_Starts(r)
             /\ C17_Returns(r)
             /\ \A b \in AllTypes : C17_GoroutineReturns(r, b)]_vars

\* C17 witness: with both types registered DoPeriodicUpdate has returned
\* after one goroutine completed its marker and the other deleted its own.
C17_Witness ==
    \E r \in Replicas : \E b1, b2 \in AllTypes :
        /\ behaviorProcessors = AllTypes
        /\ loop[r] = "returned"
        /\ outcome[r][b1] \in {"procOk", "procErr"}
        /\ \E m \in OwnMarker(r, b1) : m.end # Null
        /\ outcome[r][b2] = "lost"
        /\ OwnMarker(r, b2) = {}

\* C19: when a rule with delete set is due for a task in a pass (its
\* start_status is the comparison status and its timeout has elapsed), the
\* task does not exist after the pass, whatever rules follow it in the
\* behavior; stated for runs in which the store never fails.
C19_DeleteRuleDeletes ==
    failures = 0 =>
        \A k \in DOMAIN passes :
            (\E i \in Due(passes[k]) : RulesOf(passes[k].before)[i].delete) =>
                passes[k].after = NoTask

\* C18: when in a pass over a task a status append succeeds and a later
\* complete, delete or status append of the same pass fails, nothing of the
\* pass is committed (the stored task is as before: no new status, end_date
\* and existence unchanged), processSingleTask returns the error, and the
\* scan goes on with the remaining tasks.
C18_PartialFailure(p) ==
    /\ p.err
    /\ \E j \in 1..(Len(p.ops) - 1) : p.ops[j] = "InsertTaskStatus"
    /\ p.ops[Len(p.ops)] \in {"InsertTaskStatus", "CompleteTask", "DeleteTask"}

C18_PassStep ==
    scan.pc = "loop" /\ scan'.pc = "loop" /\ scan'.ids # scan.ids

C18_PerTaskAtomicity ==
    [][C18_PassStep =>
          LET p == passes'[Len(passes')]
          IN  C18_PartialFailure(p) =>
                 /\ p.id = Head(scan.ids)
                 /\ ~p.committed
                 /\ p.after = p.before
                 /\ asyncTasks' = asyncTasks
                 /\ p.before \in asyncTasks'
                 /\ scan'.ids = Tail(scan.ids)
                 /\ ~scan'.canceled]_vars

\* C18 witness: in one scan over two tasks the pass over the first appended
\* a status and then failed in CompleteTask or DeleteTask, leaving the task
\* as it was, and the pass over the second task committed what its rule did.
C18_Witness ==
    /\ scan.n = 1
    /\ Len(passes) = 2
    /\ C18_PartialFailure(passes[1])
    /\ passes[1].ops[Len(passes[1].ops)] \in {"CompleteTask", "DeleteTask"}
    /\ passes[1].after = passes[1].before
    /\ passes[1].before \in asyncTasks
    /\ passes[2].id # passes[1].id
    /\ passes[2].committed
    /\ passes[2].fired # <<>>

\* C20: once the context of the Processor is canceled, no pass is begun for
\* any further task of the scan: the only step left to the Processor is its
\* return; the cancellation and what follows it leave every task of the
\* store, with what earlier passes committed, as it is.
C20_Cancellation ==
    (~scan.canceled /\ scan'.canceled) =>
        asyncTasks' = asyncTasks /\ passes' = passes /\ scan'.ids = scan.ids

C20_AfterCancellation ==
    scan.canceled =>
        /\ passes' = passes
        /\ asyncTasks \subseteq asyncTasks'
        /\ scan' # scan => scan'.pc = "idle" /\ scan'.ids = <<>>

C20_CanceledScanStops ==
    [][C20_Cancellation /\ C20_AfterCancellation]_vars

\* C20 witness: the context is canceled with a task of the scan left, after
\* a pass over another task committed a status that is in the store.
C20_Witness ==
    /\ scan.canceled
    /\ scan.ids # <<>>
    /\ passes # <<>>
    /\ LET p == passes[Len(passes)]
       IN  /\ p.committed
           /\ p.fired # <<>>
           /\ p.id # Head(scan.ids)
           /\ p.after # NoTask
           /\ p.after \in asyncTasks
           /\ Len(p.after.statuses) > Len(p.before.statuses)

\* C21: a rule that does not decode or whose timeout does not parse is
\* skipped: in a pass over a task that lists such a rule, if no store
\* operation fails, the well-formed rules that are due (and only they) are
\* applied, the transaction of the task is committed, and the scan goes on
\* with the other tasks.
C21_Malformed(rule) == ~rule.decodes \/ ~ParseDuration(rule.timeout).ok

C21_WellFormedDue(p) ==
    { i \in DOMAIN RulesOf(p.before) :
        LET rule == RulesOf(p.before)[i]
        IN  /\ ~C21_Malformed(rule)
            /\ rule.start_status = p.cmpStatus
            /\ p.cmpTime + ParseDuration(rule.timeout).d < p.now }

C21_PassStep ==
    /\ scan.pc = "loop" /\ scan'.pc = "loop" /\ scan'.ids # scan.ids
    /\ failures' = failures

C21_MalformedRuleSkipped ==
    [][C21_PassStep =>
          LET p == passes'[Len(passes')]
              rules == RulesOf(p.before)
          IN  ((\E i \in DOMAIN rules : C21_Malformed(rules[i]))
                 /\ ~(\E i \in C21_WellFormedDue(p) : rules[i].delete)) =>
                 /\ p.id = Head(scan.ids)
                 /\ ~p.err /\ p.committed
                 /\ p.ops[Len(p.ops)] = "Commit"
                 /\ Range(p.fired) = C21_WellFormedDue(p)
                 /\ \A i \in Range(p.fired) :
                       \E j \in DOMAIN p.after.statuses :
                          /\ j > Len(p.before.statuses)
                          /\ p.after.statuses[j].status = rules[i].end_status
                 /\ Len(p.after.statuses) = Len(p.before.statuses) + Len(p.fired)
                 /\ p.after \in asyncTasks'
                 /\ scan'.ids = Tail(scan.ids)
                 /\ ~scan'.canceled]_vars

\* C21 witness: in one scan over two tasks, the first task lists a malformed
\* rule before a well-formed one; the well-formed rule was applied and
\* committed, and the pass over the other task was committed too.
C21_Witness ==
    /\ scan.n = 1
    /\ Len(passes) = 2
    /\ passes[1].committed
    /\ \E i, j \in DOMAIN RulesOf(passes[1].before) :
          /\ i < j
          /\ C21_Malformed(RulesOf(passes[1].before)[i])
          /\ passes[1].fired = <<j>>
    /\ Len(passes[1].after.statuses) = 1
    /\ passes[1].after \in asyncTasks
    /\ passes[2].id # passes[1].id
    /\ passes[2].committed
    /\ \E i \in DOMAIN RulesOf(passes[2].before) :
          C21_Malformed(RulesOf(passes[2].before)[i])

\* C22: an attempt loses the verify step only to a marker whose owner runs
\* the processor: when no replica has crashed, no store operation has failed
\* and no context of a tick is canceled, a replica that lost has seen the
\* marker of another replica that has invoked the processor or is still to
\* take its verify step, never only markers of replicas that themselves lost.
C22_OwnerRuns(id, b) ==
    \/ id \in invoked
    \/ \E r2 \in Replicas : taskID[r2][b] = id /\ gpc[r2][b] = "verify"

C22_NoFault ==
    /\ crashes = 0
    /\ failures = 0
    /\ \A r \in Replicas : loop[r] = "update" => ~Canceled(r)

C22_LosesOnlyToRunner ==
    C22_NoFault =>
        \A r \in Replicas : \A b \in AllTypes :
            outcome[r][b] = "lost" =>
                \E id \in seen[r][b] : id # taskID[r][b] /\ C22_OwnerRuns(id, b)

\* C23: a store error in the claim phase is handled as a loss.  When the
\* insert of the marker (or its commit) fails, the processor is not run and
\* no marker is deleted or completed.  When the marker is committed and the
\* verify query fails, the processor is not run and the replica goes on to
\* deleteTask, which removes its own marker and nothing else (and does
\* remove it when the delete itself does not fail).
C23_NeverRuns ==
    \A r \in Replicas : \A b \in AllTypes :
        /\ outcome[r][b] = "insertErr" =>
              gpc[r][b] = "done" /\ taskID[r][b] = NoID /\ OwnMarker(r, b) = {}
        /\ outcome[r][b] = "verifyErr" =>
              /\ gpc[r][b] \in {"lose", "done"}
              /\ taskID[r][b] \notin invoked
              /\ \A m \in OwnMarker(r, b) : m.end = Null

C23_InsertFails(r, b) ==
    (outcome[r][b] # "insertErr" /\ outcome'[r][b] = "insertErr") =>
        markers' = markers /\ invoked' = invoked

C23_VerifyFails(r, b) ==
    (outcome[r][b] # "verifyErr" /\ outcome'[r][b] = "verifyErr") =>
        /\ gpc[r][b] = "verify" /\ gpc'[r][b] = "lose"
        /\ OwnMarker(r, b) # {}
        /\ markers' = markers /\ invoked' = invoked

C23_Deletes(r, b) ==
    (outcome[r][b] = "verifyErr" /\ gpc[r][b] = "lose" /\ gpc'[r][b] # "lose") =>
        /\ markers' = markers \/ markers' = markers \ OwnMarker(r, b)
        /\ (gpc'[r][b] = "done" /\ failures' = failures /\ ~Canceled(r)) =>
              markers' = markers \ OwnMarker(r, b) /\ markers' # markers

C23_ErrorHandledAsLoss ==
    /\ []C23_NeverRuns
    /\ [][\A r \in Replicas : \A b \in AllTypes :
             C23_InsertFails(r, b) /\ C23_VerifyFails(r, b) /\ C23_Deletes(r, b)]_vars

\* C23 witness: the verify query of a replica failed in the store, and the
\* replica has deleted its marker without having run the processor.
C23_Witness ==
    \E r \in Replicas : \E b \in AllTypes :
        /\ outcome[r][b] = "verifyErr"
        /\ failures = 1
        /\ ~Canceled(r)
        /\ gpc[r][b] = "done"
        /\ taskID[r][b] # NoID
        /\ OwnMarker(r, b) = {}
        /\ taskID[r][b] \notin invoked

\* C24: the comparison status and timestamp of a pass are computed once,
\* from the task as it is read, before any rule is applied: every rule that
\* fires in the pass has that one status as its start_status, so of two
\* chained rules (a to b, b to c) only the first fires in a pass; the second
\* fires in a later pass, whose comparison timestamp is the created_date of
\* status b, and only when its own timeout has elapsed since then.
C24_OneComparison(p) ==
    LET rules == RulesOf(p.before)
    IN  /\ IF p.before.statuses = <<>>
           THEN p.cmpStatus = "" /\ p.cmpTime = p.before.start
           ELSE \E st \in LatestStatuses(p.before) :
                   p.cmpStatus = st.status /\ p.cmpTime = st.created
        /\ \A i \in Range(p.fired) :
              /\ rules[i].start_status = p.cmpStatus
              /\ p.cmpTime + Minutes(rules[i].timeout) < p.now
        /\ \A i, j \in DOMAIN rules :
              (/\ rules[i].end_status = rules[j].start_status
               /\ rules[i].start_status # rules[j].start_status) =>
                  ~(i \in Range(p.fired) /\ j \in Range(p.fired))

C24_Chained(p1, p2) ==
    (/\ p1.committed /\ p1.after # NoTask
     /\ p2.id = p1.id /\ p2.before = p1.after) =>
        \A i \in Range(p1.fired) : \A j \in Range(p2.fired) :
            LET rules == RulesOf(p1.before)
            IN  (/\ rules[i].end_status = rules[j].start_status
                 /\ rules[i].start_status # rules[j].start_status) =>
                    /\ p2.now > p1.now
                    /\ p2.cmpTime = p1.now
                    /\ p1.now + Minutes(rules[j].timeout) < p2.now

C24_ComparisonOncePerPass ==
    /\ \A k \in DOMAIN passes : C24_OneComparison(passes[k])
    /\ Len(passes) = 2 => C24_Chained(passes[1], passes[2])

\* C24 witness: of two chained rules the first fired alone in one pass, and
\* the second, with a timeout of 2m, fired in the next pass over the task,
\* more than two minutes after the status of the first was created.
C24_Witness ==
    /\ Len(passes) = 2
    /\ passes[1].committed /\ passes[2].committed
    /\ passes[2].id = passes[1].id
    /\ passes[2].before = passes[1].after
    /\ \E i, j \in DOMAIN RulesOf(passes[1].before) :
          LET rules == RulesOf(passes[1].before)
          IN  /\ rules[i].end_status = rules[j].start_status
              /\ rules[i].start_status # rules[j].start_status
              /\ rules[j].timeout = "2m"
              /\ passes[1].fired = <<i>>
              /\ passes[2].fired = <<j>>
              /\ passes[2].cmpTime = passes[1].now
              /\ passes[2].now > passes[1].now + 2

\* C25: a write request is answered with success only if its transaction
\* was committed: when the answer is the created response, the task of a
\* create request, or the status of an append-status request, is in the
\* store.
C25_SuccessMeansCommitted ==
    (response.n > 0 /\ response.code = StatusCreated) =>
        /\ Stored(response.id) # {}
        /\ response.op = "AddStatus" =>
              \E t \in Stored(response.id) : \E i \in DOMAIN t.statuses :
                  t.statuses[i].status = response.req.statuses[1]

====
